---- MODULE Spec2Model ----
(***************************************************************************)
(* A model of the LightAirQ client library (src/LightAirQ/LightAirQ.py,    *)
(* src/LightAirQ/exceptions.py) and of the call sequence of src/example.py.*)
(*                                                                         *)
(* The library object holds no mutable state of its own: every public      *)
(* method is a function of its arguments, of the wall clock and of what    *)
(* the server answers.  The state of the model is therefore the last call  *)
(* made on the object, the arguments it was given and what came out of it  *)
(* (a returned value or a raised exception, with the data it carries).     *)
(*                                                                         *)
(* Python values are tagged records: [t |-> "num", v |-> n] is a number,   *)
(* [t |-> "none"] is None, [t |-> "str"] a string, and [t |-> "absent"]    *)
(* stands for a key that a dict does not have.  Distances are fixed-point  *)
(* kilometres (metres); trigonometric functions are tabulated on the grid  *)
(* of coordinates the model uses.  Float special values (inf, nan) are     *)
(* outside the model.                                                      *)
(***************************************************************************)
EXTENDS Integers, Sequences, FiniteSets, TLC

VARIABLES call, args, outcome

vars == <<call, args, outcome>>

(***************************************************************************)
(* Bounds of the model.                                                    *)
(***************************************************************************)
MaxPosts == 2

(***************************************************************************)
(* Python values.                                                          *)
(***************************************************************************)
Num(n) == [t |-> "num", v |-> n]
None == [t |-> "none", v |-> 0]
Str == [t |-> "str", v |-> 0]
Absent == [t |-> "absent", v |-> 0]
Bool(b) == [t |-> "bool", v |-> IF b THEN 1 ELSE 0]

Tuple(items) == [t |-> "tuple", items |-> items]
NonePoint == [t |-> "none", items |-> <<>>]

\* A post's nested geo value: a dict (either key may be missing), None, or no
\* geo key at all.
Geo(latitude, longitude) == [t |-> "dict", latitude |-> latitude, longitude |-> longitude]
GeoNone == [t |-> "none", latitude |-> Absent, longitude |-> Absent]
GeoAbsent == [t |-> "absent", latitude |-> Absent, longitude |-> Absent]

\* JSON values as response.json() returns them: n is the number itself, the
\* truth value of a bool, or the length of a container.
JNull == [type |-> "null", n |-> 0, content |-> <<>>]
JBool(b) == [type |-> "bool", n |-> IF b THEN 1 ELSE 0, content |-> <<>>]
JNumber(n) == [type |-> "number", n |-> n, content |-> <<>>]
JList(items) == [type |-> "list", n |-> Len(items), content |-> items]
JDict(n, content) == [type |-> "dict", n |-> n, content |-> content]

\* bool(value) of a JSON value
Truthy(json) == json.type # "null" /\ json.n # 0

\* A response body: text that is a JSON document, or text that is not.
JsonText(json) == [valid |-> TRUE, json |-> json]
NotJsonText == [valid |-> FALSE, json |-> JNull]

\* What the server does with a request: net is "ok" when a response arrives,
\* else the exception session.get raises.
Response(status, text) == [net |-> "ok", status |-> status, text |-> text]
NoResponse(exc) == [net |-> exc, status |-> 0, text |-> NotJsonText]

(***************************************************************************)
(* Exception classes: the library's own (exceptions.py), the ones of the   *)
(* requests package that __make_request names, and Python's built-ins.     *)
(* Bases[c] is the set of direct base classes of c.                        *)
(***************************************************************************)
Bases(c) ==
    CASE c = "LightAirQException"          -> {"Exception"}
      [] c = "DistanceException"           -> {"LightAirQException"}
      [] c = "HaversineFormulaError"       -> {"DistanceException"}
      [] c = "RequestException"            -> {"LightAirQException"}
      [] c = "SendRequestError"            -> {"RequestException"}
      [] c = "StatusCodeError"             -> {"RequestException"}
      [] c = "DecodingError"               -> {"RequestException"}
      [] c = "DataTransformationException" -> {"LightAirQException"}
      [] c = "GetPostsError"               -> {"DataTransformationException"}
      [] c = "SortPostsError"              -> {"DataTransformationException"}
      [] c = "GetMeasurementError"         -> {"DataTransformationException"}
      [] c = "requests.RequestException"   -> {"OSError"}
      [] c = "requests.HTTPError"          -> {"requests.RequestException"}
      [] c = "requests.ConnectionError"    -> {"requests.RequestException"}
      [] c = "requests.Timeout"            -> {"requests.RequestException"}
      [] c = "requests.InvalidJSONError"   -> {"requests.RequestException"}
      [] c = "requests.JSONDecodeError"    -> {"requests.InvalidJSONError", "ValueError"}
      [] c = "UnboundLocalError"           -> {"NameError"}
      [] c = "IndexError"                  -> {"LookupError"}
      [] c = "KeyError"                    -> {"LookupError"}
      [] c = "Exception"                   -> {}
      [] OTHER                             -> {"Exception"}

RECURSIVE Ancestors(_)
Ancestors(c) == {c} \cup UNION {Ancestors(b) : b \in Bases(c)}

\* isinstance(exc, classes) for a tuple of classes
IsInstance(exc, classes) == Ancestors(exc) \cap classes # {}

\* The index of the first except clause that catches exc (clauses is the
\* sequence of the clauses' class tuples, in source order); 0 when none does.
FirstClause(exc, clauses) ==
    IF \E i \in 1..Len(clauses) : IsInstance(exc, clauses[i])
    THEN CHOOSE i \in 1..Len(clauses) :
            /\ IsInstance(exc, clauses[i])
            /\ \A j \in 1..(i - 1) : ~IsInstance(exc, clauses[j])
    ELSE 0

(***************************************************************************)
(* __haversine.  Angles are whole degrees; sin^2(d/2) is in parts per      *)
(* million, cos in parts per ten thousand, asin(sqrt(hav)) in              *)
(* microradians, the distance in metres.                                   *)
(***************************************************************************)
GridDegrees == {0, 10}

Abs(x) == IF x < 0 THEN -x ELSE x

SinSqHalf(d) == IF Abs(d) = 0 THEN 0 ELSE 7596
Cos(a) == IF Abs(a) = 0 THEN 10000 ELSE 9848

Hav(lat1, lon1, lat2, lon2) ==
    SinSqHalf(lat2 - lat1)
        + (((Cos(lat1) * Cos(lat2)) \div 10000) * SinSqHalf(lon2 - lon1)) \div 10000

AsinSqrt(h) ==
    CASE h = 0     -> 0
      [] h = 7366  -> 85937
      [] h = 7596  -> 87266
      [] h = 15076 -> 123098

Distance(lat1, lon1, lat2, lon2) ==
    (6371 * 2 * AsinSqrt(Hav(lat1, lon1, lat2, lon2))) \div 1000

\* What evaluating radians(point[i]) does: "ok", or the exception it raises.
RadiansOf(point, i) ==
    IF point.t = "none" THEN "TypeError"
    ELSE IF Len(point.items) < i THEN "IndexError"
    ELSE IF point.items[i].t # "num" THEN "TypeError"
    ELSE "ok"

\* The first exception raised in the try body, "ok" if none, in evaluation order.
HaversineBody(point1, point2) ==
    LET steps == << RadiansOf(point1, 1), RadiansOf(point1, 2),
                    RadiansOf(point2, 1), RadiansOf(point2, 2) >>
    IN IF \A i \in 1..4 : steps[i] = "ok" THEN "ok"
       ELSE steps[CHOOSE i \in 1..4 :
                    steps[i] # "ok" /\ \A j \in 1..(i - 1) : steps[j] = "ok"]

HaversineClauses == << {"TypeError", "ValueError"}, {"Exception"} >>

Haversine(point1, point2) ==
    LET err == HaversineBody(point1, point2)
    IN IF err = "ok"
       THEN [raised |-> FALSE, exc |-> "",
             distance |-> Distance(point1.items[1].v, point1.items[2].v,
                                   point2.items[1].v, point2.items[2].v),
             points |-> <<point1, point2>>]
       ELSE IF FirstClause(err, HaversineClauses) = 1
       THEN [raised |-> TRUE, exc |-> "HaversineFormulaError", distance |-> 0,
             points |-> <<point1, point2>>]
       ELSE [raised |-> TRUE, exc |-> err, distance |-> 0, points |-> <<point1, point2>>]

(***************************************************************************)
(* exceptions.py: the messages the request errors are built with.  A       *)
(* message is the sequence of its fields; an f-string interpolates the     *)
(* value of a field, a plain string literal keeps the braces as written.   *)
(***************************************************************************)
FString(field, value) == [field |-> field, interpolated |-> TRUE, value |-> value]
PlainString(field) == [field |-> field, interpolated |-> FALSE, value |-> "{" \o field \o "}"]

SendRequestErrorMessage(params, url) ==
    << FString("params", params), FString("url", url) >>

StatusCodeErrorMessage(params, url, response_code, response_text) ==
    << FString("params", params), FString("url", url),
       FString("response_code", response_code), PlainString("response_text") >>

DecodingErrorMessage(params, url, response_code, response_text) ==
    << FString("params", params), FString("url", url),
       FString("response_code", response_code), PlainString("response_text") >>

(***************************************************************************)
(* __make_request.                                                         *)
(***************************************************************************)
DEFAULT_HOST == "https://api.cityscreen.io"
POSTS_URL == "harvester/v2/Posts"
MEASUREMENTS_URL == "harvester/v2/Posts/measurements"

\* params = {**kwargs} of a call without keyword arguments: every key has the
\* empty value of its type.
NoParams ==
    [ids |-> 0, interval |-> "",
     date__gt |-> [day |-> 0, hour |-> 0, minute |-> 0, second |-> 0],
     limit |-> 0, measure_scheme |-> ""]

Url(host_url, method_url) == <<host_url, "/", method_url>>

\* RaiseForStatus that takes only a 5xx status for an error.
RaiseForStatusServerOnly(status) ==
    IF 500 <= status /\ status < 600 THEN "requests.HTTPError" ELSE "ok"

\* response.raise_for_status(): HTTPError for a 4xx or 5xx status
RaiseForStatus(status) ==
    IF (400 <= status /\ status < 500) \/ (500 <= status /\ status < 600)
    THEN "requests.HTTPError" ELSE "ok"

\* response.json(): the parsed document, or JSONDecodeError
ResponseJson(text) ==
    IF text.valid THEN [exc |-> "ok", json |-> text.json]
    ELSE [exc |-> "requests.JSONDecodeError", json |-> JNull]

\* The try body: the exception that leaves it ("ok" when it returns).
MakeRequestBody(server) ==
    IF server.net # "ok" THEN server.net
    ELSE IF RaiseForStatus(server.status) # "ok" THEN RaiseForStatus(server.status)
    ELSE IF ResponseJson(server.text).exc # "ok" THEN ResponseJson(server.text).exc
    ELSE IF ~Truthy(ResponseJson(server.text).json) THEN "requests.HTTPError"
    ELSE "ok"

MakeRequestClauses ==
    << {"requests.HTTPError"}, {"requests.RequestException"},
       {"requests.JSONDecodeError"}, {"Exception"} >>

MakeRequest(method_url, params, server) ==
    LET url == Url(DEFAULT_HOST, method_url)
        err == MakeRequestBody(server)
        clause == FirstClause(err, MakeRequestClauses)
    IN IF err = "ok"
       THEN [raised |-> FALSE, exc |-> "", json |-> ResponseJson(server.text).json,
             message |-> <<>>]
       ELSE IF clause = 1
       THEN [raised |-> TRUE, exc |-> "StatusCodeError", json |-> JNull,
             message |-> StatusCodeErrorMessage(params, url, server.status, server.text)]
       ELSE IF clause = 2
       THEN [raised |-> TRUE, exc |-> "SendRequestError", json |-> JNull,
             message |-> SendRequestErrorMessage(params, url)]
       ELSE IF clause = 3
       THEN [raised |-> TRUE, exc |-> "DecodingError", json |-> JNull,
             message |-> DecodingErrorMessage(params, url, server.status, server.text)]
       ELSE [raised |-> TRUE, exc |-> err, json |-> JNull, message |-> <<>>]

(***************************************************************************)
(* sort_posts_in_order_of_increasing_distance.  A post is a dict with the  *)
(* keys id, latitude, longitude, isOnline and distance (Absent when the    *)
(* dict lacks the key).                                                    *)
(***************************************************************************)
Post(id, latitude, longitude, isOnline) ==
    [id |-> id, geo |-> GeoAbsent, latitude |-> latitude, longitude |-> longitude,
     isOnline |-> isOnline, distance |-> Absent]

\* post[key]: the value, or KeyError
Subscript(post, key) ==
    LET value == CASE key = "latitude"  -> post.latitude
                   [] key = "longitude" -> post.longitude
                   [] key = "isOnline"  -> post.isOnline
                   [] key = "distance"  -> post.distance
    IN IF value.t = "absent" THEN [exc |-> "KeyError", value |-> value]
       ELSE [exc |-> "ok", value |-> value]

\* One pass of the for loop over posts[index..]: the posts as mutated so far,
\* the (distance, index) pairs collected, and the exception that ended the loop.
RECURSIVE DistanceLoop(_, _, _, _)
DistanceLoop(posts, reference_point, index, distances) ==
    IF index > Len(posts)
    THEN [exc |-> "ok", posts |-> posts, distances |-> distances]
    ELSE LET post == posts[index]
             lat == Subscript(post, "latitude")
             lon == Subscript(post, "longitude")
         IN IF lat.exc # "ok"
            THEN [exc |-> lat.exc, posts |-> posts, distances |-> distances]
            ELSE IF lon.exc # "ok"
            THEN [exc |-> lon.exc, posts |-> posts, distances |-> distances]
            ELSE LET d == Haversine(reference_point, Tuple(<<lat.value, lon.value>>))
                 IN IF d.raised
                    THEN [exc |-> d.exc, posts |-> posts, distances |-> distances]
                    ELSE DistanceLoop(
                            [posts EXCEPT ![index].distance = Num(d.distance)],
                            reference_point, index + 1,
                            Append(distances, <<d.distance, index>>))

\* PairLess with the order reversed (a sort with reverse=True).
PairLessReversed(a, b) == b[1] < a[1] \/ (a[1] = b[1] /\ b[2] < a[2])

\* Tuple comparison of (distance, index) pairs, as list.sort() orders them.
PairLess(a, b) == a[1] < b[1] \/ (a[1] = b[1] /\ a[2] < b[2])

RECURSIVE SortPairs(_)
SortPairs(pairs) ==
    IF pairs = <<>> THEN <<>>
    ELSE LET i == CHOOSE i \in 1..Len(pairs) :
                    \A j \in 1..Len(pairs) : j = i \/ PairLess(pairs[i], pairs[j])
             rest == [k \in 1..(Len(pairs) - 1) |->
                        IF k < i THEN pairs[k] ELSE pairs[k + 1]]
         IN <<pairs[i]>> \o SortPairs(rest)

\* KeepPair with the condition posts[index]["isOnline"] alone.
KeepPairOnlineOnly(posts, pair) ==
    LET online == Subscript(posts[pair[2]], "isOnline")
    IN IF online.exc # "ok" THEN [exc |-> online.exc, keep |-> FALSE]
       ELSE [exc |-> "ok", keep |-> online.value.v # 0]

\* The condition of the list comprehension for one pair:
\* distance and posts[index]["isOnline"]
KeepPair(posts, pair) ==
    IF pair[1] = 0 THEN [exc |-> "ok", keep |-> FALSE]
    ELSE LET online == Subscript(posts[pair[2]], "isOnline")
         IN IF online.exc # "ok" THEN [exc |-> online.exc, keep |-> FALSE]
            ELSE [exc |-> "ok", keep |-> online.value.v # 0]

\* The list comprehension over the sorted pairs, from pair k on.
RECURSIVE Comprehension(_, _, _, _)
Comprehension(posts, pairs, k, result) ==
    IF k > Len(pairs) THEN [exc |-> "ok", value |-> result]
    ELSE LET c == KeepPair(posts, pairs[k])
         IN IF c.exc # "ok" THEN [exc |-> c.exc, value |-> result]
            ELSE Comprehension(posts, pairs, k + 1,
                    IF c.keep THEN Append(result, posts[pairs[k][2]]) ELSE result)

SortClauses == << {"DistanceException"}, {"AttributeError", "KeyError"}, {"Exception"} >>

\* What the except clauses of the ranker make of exception exc.
SortHandler(exc, posts) ==
    IF FirstClause(exc, SortClauses) = 2
    THEN [raised |-> TRUE, exc |-> "SortPostsError", value |-> <<>>, data |-> posts]
    ELSE [raised |-> TRUE, exc |-> exc, value |-> <<>>, data |-> posts]

SortPosts(posts, reference_point) ==
    LET loop == DistanceLoop(posts, reference_point, 1, <<>>)
    IN IF loop.exc # "ok"
       THEN [caught |-> loop.exc] @@ SortHandler(loop.exc, loop.posts)
       ELSE LET res == Comprehension(loop.posts, SortPairs(loop.distances), 1, <<>>)
            IN IF res.exc # "ok"
               THEN [caught |-> res.exc] @@ SortHandler(res.exc, loop.posts)
               ELSE [caught |-> "", raised |-> FALSE, exc |-> "", value |-> res.value,
                     data |-> loop.posts]

(***************************************************************************)
(* get_available_posts.                                                    *)
(***************************************************************************)
RawPost(id, geo, isOnline) ==
    [id |-> id, geo |-> geo, latitude |-> Absent, longitude |-> Absent,
     isOnline |-> isOnline, distance |-> Absent]

\* for dict_key, dict_value in geo.items(): post[dict_key] = dict_value
MergeGeo(post, geo) ==
    [post EXCEPT !.latitude  = IF geo.latitude.t # "absent" THEN geo.latitude ELSE @,
                 !.longitude = IF geo.longitude.t # "absent" THEN geo.longitude ELSE @]

\* The for loop over posts[index..]: the list as mutated so far and the
\* exception that ended the loop.
RECURSIVE FlattenLoop(_, _)
FlattenLoop(posts, index) ==
    IF index > Len(posts) THEN [exc |-> "ok", posts |-> posts]
    ELSE LET geo == posts[index].geo
             popped == [posts EXCEPT ![index].geo = GeoAbsent]
         IN IF geo.t = "absent" THEN [exc |-> "KeyError", posts |-> posts]
            ELSE IF geo.t # "dict" THEN [exc |-> "AttributeError", posts |-> popped]
            ELSE FlattenLoop([popped EXCEPT ![index] = MergeGeo(@, geo)], index + 1)

\* The try body after the request returned the JSON value posts.
FlattenBody(posts) ==
    CASE posts.type = "list" -> FlattenLoop(posts.content, 1)
      [] posts.type = "dict" -> [exc |-> "AttributeError", posts |-> posts.content]
      [] OTHER               -> [exc |-> "TypeError", posts |-> posts.content]

AccessClauses ==
    << {"RequestException"}, {"TypeError", "AttributeError", "KeyError"}, {"Exception"} >>

\* AccessHandler without the "except RequestException: raise" clause in front:
\* whatever is not anticipated is wrapped.
AccessHandlerWrapping(exc, bound, posts) ==
    [raised |-> TRUE, exc |-> "GetPostsError", value |-> <<>>, data |-> posts]

\* What the except clauses make of exc; bound tells whether the local
\* variable posts had been assigned when exc was raised.
AccessHandler(exc, bound, posts) ==
    IF FirstClause(exc, AccessClauses) = 2
    THEN IF bound
         THEN [raised |-> TRUE, exc |-> "GetPostsError", value |-> <<>>, data |-> posts]
         ELSE [raised |-> TRUE, exc |-> "UnboundLocalError", value |-> <<>>, data |-> <<>>]
    ELSE [raised |-> TRUE, exc |-> exc, value |-> <<>>, data |-> <<>>]

GetAvailablePosts(server) ==
    LET r == MakeRequest(POSTS_URL, NoParams, server)
    IN IF r.raised
       THEN [transport |-> r, caught |-> r.exc] @@ AccessHandler(r.exc, FALSE, <<>>)
       ELSE LET body == FlattenBody(r.json)
            IN IF body.exc # "ok"
               THEN [transport |-> r, caught |-> body.exc]
                        @@ AccessHandler(body.exc, TRUE, body.posts)
               ELSE [transport |-> r, caught |-> "", raised |-> FALSE, exc |-> "",
                     value |-> body.posts, data |-> <<>>]

(***************************************************************************)
(* get_last_measurement_from_post.  A datetime is [day, hour, minute,      *)
(* second]; a measurements payload is a dict with the keys meta and data.  *)
(***************************************************************************)
\* datetime.replace(minute=..., second=..., microsecond=0)
Replace(dt, minute, second) == [dt EXCEPT !.minute = minute, !.second = second]

\* datetime - timedelta(minutes=...): the seconds of the day less the delta,
\* renormalised by divmod into days, hours, minutes and seconds
MinusMinutes(dt, minutes) ==
    LET seconds == dt.hour * 3600 + dt.minute * 60 + dt.second - minutes * 60
        days == dt.day + (IF seconds < 0 THEN -((-seconds + 86399) \div 86400)
                          ELSE seconds \div 86400)
        rem == seconds % 86400
    IN [day |-> days, hour |-> rem \div 3600, minute |-> (rem % 3600) \div 60,
        second |-> rem % 60]

\* DateGt that leaves the minute as it is and only clears the seconds.
DateGtUntruncated(now) == MinusMinutes(Replace(now, now.minute, 0), 5)

DateGt(now) == MinusMinutes(Replace(now, (now.minute \div 5) * 5, 0), 5)

CityAbsent == [t |-> "absent", value |-> Absent]
City(value) == [t |-> "dict", value |-> value]
AqiAbsent == [t |-> "absent", cityairAqi |-> CityAbsent]
Aqi(city) == [t |-> "dict", cityairAqi |-> city]

Reading(v) == [t |-> "num", v |-> v, unit |-> ""]
ReadingAbsent == [t |-> "absent", v |-> 0, unit |-> ""]

Sample(aqi, temperature) == [aqi |-> aqi, temperature |-> temperature, cityairAqi |-> Absent]

\* Stands for "no measurement" where a call raised.
NoSample == Sample(AqiAbsent, ReadingAbsent)

UnitsAbsent == [t |-> "absent", temperature |-> ""]
Units(temperature) == [t |-> "dict", temperature |-> temperature]
MetaAbsent == [t |-> "absent", units |-> UnitsAbsent]
Meta(units) == [t |-> "dict", units |-> units]
DataAbsent == [t |-> "absent", items |-> <<>>]
Data(items) == [t |-> "list", items |-> items]

Payload(meta, data) ==
    JDict((IF meta.t = "absent" THEN 0 ELSE 1) + (IF data.t = "absent" THEN 0 ELSE 1),
          [meta |-> meta, data |-> data])

\* f"{dict_value} {measurements_units[dict_key]}" for the keys units has
Annotate(sample, units) ==
    IF sample.temperature.t # "absent" /\ units.temperature # ""
    THEN [sample EXCEPT !.temperature =
                [t |-> "str", v |-> @.v, unit |-> units.temperature]]
    ELSE sample

\* The try body after the request returned the JSON value measurements: the
\* exception that ended it, measurements as mutated so far, the value returned.
MeasurementBody(measurements) ==
    LET payload == measurements.content
        last == Len(payload.data.items)
        sample == payload.data.items[last]
        popped == [measurements EXCEPT !.content.data.items[last].aqi = AqiAbsent]
        fail(exc, m) == [exc |-> exc, measurements |-> m, value |-> NoSample]
    IN IF measurements.type # "dict" THEN fail("TypeError", measurements)
       ELSE IF payload.meta.t = "absent" THEN fail("KeyError", measurements)
       ELSE IF payload.meta.units.t = "absent" THEN fail("KeyError", measurements)
       ELSE IF payload.data.t = "absent" THEN fail("KeyError", measurements)
       ELSE IF last = 0 THEN fail("IndexError", measurements)
       ELSE IF sample.aqi.t = "absent" THEN fail("KeyError", measurements)
       ELSE IF sample.aqi.cityairAqi.t = "absent" THEN fail("KeyError", popped)
       ELSE IF sample.aqi.cityairAqi.value.t = "absent" THEN fail("KeyError", popped)
       ELSE [exc |-> "ok", measurements |-> popped,
             value |-> Annotate([sample EXCEPT !.aqi = AqiAbsent,
                                               !.cityairAqi = sample.aqi.cityairAqi.value],
                                payload.meta.units)]

MeasurementClauses ==
    << {"RequestException"}, {"AttributeError", "IndexError", "KeyError"}, {"Exception"} >>

MeasurementHandler(exc, bound, measurements) ==
    IF FirstClause(exc, MeasurementClauses) = 2
    THEN IF bound
         THEN [raised |-> TRUE, exc |-> "GetMeasurementError", measurement |-> NoSample,
               payload |-> measurements]
         ELSE [raised |-> TRUE, exc |-> "UnboundLocalError", measurement |-> NoSample,
               payload |-> JNull]
    ELSE [raised |-> TRUE, exc |-> exc, measurement |-> NoSample, payload |-> JNull]

MeasurementParams(post_id, date__gt) ==
    [ids |-> post_id, interval |-> "5m", date__gt |-> date__gt, limit |-> 2,
     measure_scheme |-> "c_mmhg_mg"]

GetLastMeasurement(post_id, now, server) ==
    LET params == MeasurementParams(post_id, DateGt(now))
        r == MakeRequest(MEASUREMENTS_URL, params, server)
    IN IF r.raised
       THEN [transport |-> r, caught |-> r.exc, params |-> params]
                @@ MeasurementHandler(r.exc, FALSE, JNull)
       ELSE LET body == MeasurementBody(r.json)
            IN IF body.exc # "ok"
               THEN [transport |-> r, caught |-> body.exc, params |-> params]
                        @@ MeasurementHandler(body.exc, TRUE, body.measurements)
               ELSE [transport |-> r, caught |-> "", params |-> params,
                     raised |-> FALSE, exc |-> "", measurement |-> body.value,
                     payload |-> JNull]

(***************************************************************************)
(* example.py: the posts are fetched and then ranked.                      *)
(***************************************************************************)
FetchAndRank(server, ref_point) ==
    LET posts_list == GetAvailablePosts(server)
    IN IF posts_list.raised
       THEN [raised |-> TRUE, exc |-> posts_list.exc, value |-> <<>>]
       ELSE LET ranked == SortPosts(posts_list.value, ref_point)
            IN [raised |-> ranked.raised, exc |-> ranked.exc, value |-> ranked.value]

(***************************************************************************)
(* State machine.  A call is made when no call is in progress; Return      *)
(* gives control back to the caller.                                       *)
(***************************************************************************)
Coordinates == {Num(d) : d \in GridDegrees} \cup {None, Str}

PointInputs ==
    {NonePoint} \cup {Tuple(s) : s \in UNION {[1..n -> Coordinates] : n \in 0..2}}

Latitudes == {Num(d) : d \in GridDegrees} \cup {None, Absent}
Longitudes == {Num(d) : d \in GridDegrees} \cup {Absent}
OnlineFlags == {Bool(TRUE), Bool(FALSE), Absent}

PostInputs(id) ==
    {Post(id, la, lo, on) : la \in Latitudes, lo \in Longitudes, on \in OnlineFlags}

PostLists ==
    UNION {{s \in [1..n -> UNION {PostInputs(i) : i \in 1..n}] :
                \A i \in 1..n : s[i].id = i} : n \in 0..MaxPosts}

ReferencePoints ==
    {Tuple(<<Num(0), Num(0)>>), Tuple(<<Num(10), Num(0)>>), Tuple(<<Str, Str>>),
     Tuple(<<Num(0)>>), NonePoint}

Statuses == {200, 201, 304, 404, 500}

NetworkFailures == {"requests.ConnectionError", "requests.Timeout"}
UnknownFailures == {"ValueError", "KeyError"}

PlainJson ==
    {JNull, JBool(FALSE), JBool(TRUE), JNumber(0), JNumber(1), JList(<<>>),
     JList(<<1>>), JDict(0, <<>>), JDict(1, <<1>>)}

PlainServers ==
    {Response(st, tx) : st \in Statuses,
                        tx \in {JsonText(j) : j \in PlainJson} \cup {NotJsonText}}
        \cup {NoResponse(e) : e \in NetworkFailures \cup UnknownFailures}

\* Servers of the two endpoints: a response with the endpoint's kind of
\* document, or one of the failures.
FailingServers ==
    {Response(st, tx) : st \in {404, 500}, tx \in {JsonText(JNull), NotJsonText}}
        \cup {Response(st, NotJsonText) : st \in {200, 304}}
        \cup {NoResponse(e) : e \in NetworkFailures \cup UnknownFailures}

Geos ==
    {GeoAbsent, GeoNone, Geo(Num(0), Absent)}
        \cup {Geo(Num(la), Num(lo)) : la \in GridDegrees, lo \in GridDegrees}

RawPostInputs(id) == {RawPost(id, geo, Bool(on)) : geo \in Geos, on \in BOOLEAN}

RawPostLists ==
    UNION {{s \in [1..n -> UNION {RawPostInputs(i) : i \in 1..n}] :
                \A i \in 1..n : s[i].id = i} : n \in 0..MaxPosts}

PostsServers ==
    {Response(200, JsonText(JList(posts))) : posts \in RawPostLists}
        \cup {Response(200, JsonText(j)) : j \in {JNumber(1), JDict(1, <<1>>)}}
        \cup FailingServers

Times ==
    {[day |-> 1, hour |-> h, minute |-> m, second |-> sec] :
        h \in {0, 23}, m \in 0..59, sec \in {0, 59}}

Midnight == [day |-> 1, hour |-> 0, minute |-> 0, second |-> 0]

Aqis == {AqiAbsent, Aqi(CityAbsent), Aqi(City(Absent)), Aqi(City(Num(42)))}

Samples == {Sample(aqi, temp) : aqi \in Aqis, temp \in {ReadingAbsent, Reading(21)}}

Metas == {MetaAbsent, Meta(UnitsAbsent), Meta(Units("")), Meta(Units("C"))}

Datas ==
    {DataAbsent, Data(<<>>)} \cup {Data(<<smp>>) : smp \in Samples}
        \cup {Data(<<Sample(Aqi(City(Num(7))), Reading(20)), smp>>) : smp \in Samples}

MeasurementServers ==
    {Response(200, JsonText(Payload(meta, data))) : meta \in Metas, data \in Datas}
        \cup {Response(200, JsonText(JList(<<1>>)))}
        \cup FailingServers

NominalServer ==
    Response(200, JsonText(Payload(Meta(Units("C")),
                                   Data(<<Sample(Aqi(City(Num(42))), Reading(21))>>))))

LastMinute == [day |-> 1, hour |-> 23, minute |-> 59, second |-> 59]

\* Between calls there are no arguments and there is no outcome.
NoArgs == [idle |-> TRUE]
NoOutcome == [raised |-> FALSE, exc |-> ""]

Init ==
    /\ call = "none"
    /\ args = NoArgs
    /\ outcome = NoOutcome

CallHaversine ==
    /\ call = "none"
    /\ \E p1 \in PointInputs, p2 \in PointInputs :
        /\ call' = "haversine"
        /\ args' = [point1 |-> p1, point2 |-> p2]
        /\ outcome' = Haversine(p1, p2)

CallSortPosts ==
    /\ call = "none"
    /\ \E posts \in PostLists, reference_point \in ReferencePoints :
        /\ call' = "sort_posts"
        /\ args' = [posts |-> posts, reference_point |-> reference_point]
        /\ outcome' = SortPosts(posts, reference_point)

CallMakeRequest ==
    /\ call = "none"
    /\ \E method_url \in {POSTS_URL, MEASUREMENTS_URL}, server \in PlainServers :
        LET params == IF method_url = POSTS_URL THEN NoParams
                      ELSE MeasurementParams(1, DateGt(Midnight))
        IN /\ call' = "make_request"
           /\ args' = [method_url |-> method_url, params |-> params, server |-> server]
           /\ outcome' = MakeRequest(method_url, params, server)

CallGetAvailablePosts ==
    /\ call = "none"
    /\ \E server \in PostsServers :
        /\ call' = "get_available_posts"
        /\ args' = [server |-> server]
        /\ outcome' = GetAvailablePosts(server)

CallGetLastMeasurement ==
    /\ call = "none"
    /\ \E post_id \in 1..MaxPosts, now \in Times, server \in MeasurementServers :
        /\ server = NominalServer \/ (post_id = 1 /\ now \in {Midnight, LastMinute})
        /\ call' = "get_last_measurement"
        /\ args' = [post_id |-> post_id, now |-> now, server |-> server]
        /\ outcome' = GetLastMeasurement(post_id, now, server)

CallFetchAndRank ==
    /\ call = "none"
    /\ \E server \in PostsServers, ref_point \in ReferencePoints :
        /\ call' = "fetch_and_rank"
        /\ args' = [server |-> server, ref_point |-> ref_point]
        /\ outcome' = FetchAndRank(server, ref_point)

Return ==
    /\ call # "none"
    /\ call' = "none"
    /\ args' = NoArgs
    /\ outcome' = NoOutcome

Next ==
    \/ CallHaversine
    \/ CallSortPosts
    \/ CallMakeRequest
    \/ CallGetAvailablePosts
    \/ CallGetLastMeasurement
    \/ CallFetchAndRank
    \/ Return

Spec == Init /\ [][Next]_vars

(***************************************************************************)
(* Properties.                                                             *)
(***************************************************************************)
Ids(posts) == [k \in 1..Len(posts) |-> posts[k].id]

WellFormedPost(post) ==
    /\ post.latitude.t = "num"
    /\ post.longitude.t = "num"
    /\ post.isOnline.t = "bool"

ValidPoint(point) ==
    /\ point.t = "tuple"
    /\ Len(point.items) = 2
    /\ \A i \in 1..2 : point.items[i].t = "num"

\* The distance of a well-formed post from a valid reference point.
DistanceOf(point, post) ==
    Distance(point.items[1].v, point.items[2].v, post.latitude.v, post.longitude.v)

\* C1: for well-formed posts and a valid reference point the ranker returns;
\* its output carries each post's computed distance, ascends in distance,
\* holds no offline post and no post at distance 0, and holds every online
\* post at a non-zero distance exactly once.
C1_RankedOutput ==
    (/\ call = "sort_posts"
     /\ \A i \in 1..Len(args.posts) : WellFormedPost(args.posts[i])
     /\ ValidPoint(args.reference_point))
    => LET posts == args.posts
           ranked == outcome.value
       IN /\ ~outcome.raised
          /\ \A k \in 1..Len(ranked) :
                /\ ranked[k].id \in 1..Len(posts)
                /\ ranked[k].distance = Num(DistanceOf(args.reference_point, posts[ranked[k].id]))
                /\ ranked[k].distance.v # 0
                /\ ranked[k].isOnline = Bool(TRUE)
          /\ \A k \in 1..(Len(ranked) - 1) :
                ranked[k].distance.v <= ranked[k + 1].distance.v
          /\ \A i \in 1..Len(posts) :
                Cardinality({k \in 1..Len(ranked) : ranked[k].id = posts[i].id})
                    = IF posts[i].isOnline = Bool(TRUE) /\ DistanceOf(args.reference_point, posts[i]) # 0
                      THEN 1 ELSE 0

\* Witness of C1: two well-formed online posts come back in the opposite order.
C1_Witness ==
    /\ call = "sort_posts"
    /\ Len(args.posts) = 2
    /\ \A i \in 1..2 : WellFormedPost(args.posts[i])
    /\ ValidPoint(args.reference_point)
    /\ ~outcome.raised
    /\ Ids(outcome.value) = <<2, 1>>

ScenarioPosts ==
    << RawPost(1, Geo(Num(10), Num(10)), Bool(TRUE)),
       RawPost(2, Geo(Num(0), Num(0)), Bool(TRUE)) >>

Origin == Tuple(<<Num(0), Num(0)>>)

IsScenario ==
    /\ call = "fetch_and_rank"
    /\ args.server.net = "ok"
    /\ args.server.status = 200
    /\ args.server.text.valid
    /\ args.server.text.json.type = "list"
    /\ args.server.text.json.content = ScenarioPosts
    /\ args.ref_point = Origin

\* C2 (as stated): the scenario's posts, fetched and ranked from (0,0), come
\* back as [id 2, id 1].
C2_ScenarioOrder ==
    IsScenario => (~outcome.raised /\ Ids(outcome.value) = <<2, 1>>)

\* C2 (amended): the scenario's posts, fetched and ranked from (0,0), come
\* back as [id 1] alone; post 2, at distance 0, is left out.
C2_ScenarioOrderAmended ==
    IsScenario => (~outcome.raised /\ Ids(outcome.value) = <<1>>)

\* Witness of C2: the scenario is run and the ranker returns.
C2_Witness == IsScenario /\ ~outcome.raised

Is2xx(status) == 200 <= status /\ status < 300
Is4xx5xx(status) == 400 <= status /\ status < 600

\* C3: a 2xx response whose body is not JSON makes the request fail with
\* DecodingError.
C3_DecodingError ==
    (/\ call = "make_request"
     /\ args.server.net = "ok"
     /\ Is2xx(args.server.status)
     /\ ~args.server.text.valid)
    => (outcome.raised /\ outcome.exc = "DecodingError")

\* C4 (as stated): StatusCodeError whenever the status is not 2xx or the 2xx
\* body parses to a falsy value; the parsed value is returned only for a 2xx
\* status and a truthy value; a network failure gives SendRequestError.
\* (Stated for servers whose body, if any, is JSON; a body that is not JSON is
\* the case of C3.)
C4_StatusCodeError ==
    (call = "make_request" /\ (args.server.net = "ok" => args.server.text.valid))
    => LET server == args.server
       IN /\ (/\ server.net = "ok"
              /\ \/ ~Is2xx(server.status)
                 \/ (server.text.valid /\ ~Truthy(server.text.json)))
             => (outcome.raised /\ outcome.exc = "StatusCodeError")
          /\ ~outcome.raised
             => (/\ server.net = "ok"
                 /\ Is2xx(server.status)
                 /\ server.text.valid
                 /\ Truthy(server.text.json)
                 /\ outcome.json = server.text.json)
          /\ server.net \in NetworkFailures
             => (outcome.raised /\ outcome.exc = "SendRequestError")

\* C4 (amended): StatusCodeError whenever the status is 4xx or 5xx, or the
\* body of a response with any other status parses to a falsy value; the
\* parsed value is returned only for a status that is not 4xx or 5xx and a
\* truthy value; a network failure gives SendRequestError.
C4_StatusCodeErrorAmended ==
    call = "make_request"
    => LET server == args.server
       IN /\ (/\ server.net = "ok"
              /\ \/ Is4xx5xx(server.status)
                 \/ (server.text.valid /\ ~Truthy(server.text.json)))
             => (outcome.raised /\ outcome.exc = "StatusCodeError")
          /\ ~outcome.raised
             => (/\ server.net = "ok"
                 /\ ~Is4xx5xx(server.status)
                 /\ server.text.valid
                 /\ Truthy(server.text.json)
                 /\ outcome.json = server.text.json)
          /\ server.net \in NetworkFailures
             => (outcome.raised /\ outcome.exc = "SendRequestError")

\* Witness of C4: a 404 with a good JSON body is refused with StatusCodeError.
C4_Witness ==
    /\ call = "make_request"
    /\ args.server.net = "ok"
    /\ args.server.status = 404
    /\ args.server.text.valid
    /\ Truthy(args.server.text.json)
    /\ outcome.raised
    /\ outcome.exc = "StatusCodeError"

\* The message holds the value of the field.
Carries(message, field) ==
    \E i \in 1..Len(message) : message[i].field = field /\ message[i].interpolated

\* C5: every StatusCodeError of the transport carries the params, the url,
\* the status code and the response text of the exchange.
C5_StatusCodeErrorDiagnostics ==
    (call = "make_request" /\ outcome.raised /\ outcome.exc = "StatusCodeError")
    => /\ \A f \in {"params", "url", "response_code", "response_text"} :
                Carries(outcome.message, f)
       /\ \A i \in 1..Len(outcome.message) :
            LET seg == outcome.message[i]
            IN /\ seg.field = "params" => seg.value = args.params
               /\ seg.field = "url" => seg.value = Url(DEFAULT_HOST, args.method_url)
               /\ seg.field = "response_code" => seg.value = args.server.status
               /\ seg.field = "response_text" => seg.value = args.server.text

MissingKey(post) ==
    \/ post.latitude.t = "absent"
    \/ post.longitude.t = "absent"
    \/ post.isOnline.t = "absent"

\* C6: a post that lacks latitude, longitude or isOnline makes the ranker
\* raise SortPostsError with the whole input list, wherever the post lies
\* (stated for inputs whose coordinates, where present, are numbers and whose
\* reference point is valid, so that no distance calculation fails).
C6_MalformedPostRaises ==
    (/\ call = "sort_posts"
     /\ ValidPoint(args.reference_point)
     /\ \A i \in 1..Len(args.posts) : args.posts[i].latitude.t \in {"num", "absent"}
     /\ \E i \in 1..Len(args.posts) : MissingKey(args.posts[i]))
    => /\ outcome.raised
       /\ outcome.exc = "SortPostsError"
       /\ Ids(outcome.data) = Ids(args.posts)

Anticipated(operation) ==
    CASE operation = "get_available_posts"  -> AccessClauses[2]
      [] operation = "get_last_measurement" -> MeasurementClauses[2]
      [] operation = "sort_posts"           -> SortClauses[2]

Wrappers == {"GetPostsError", "GetMeasurementError", "SortPostsError"}

\* C7: a RequestError of the transport leaves get_available_posts and
\* get_last_measurement_from_post as the same kind of error, a
\* DistanceCalculationError leaves the ranker as the same kind, and so does
\* any exception that is not of a kind the layer anticipates; none of them
\* becomes GetPostsError, GetMeasurementError or SortPostsError.
C7_NoRewrapping ==
    /\ call \in {"get_available_posts", "get_last_measurement"}
       => /\ (outcome.transport.raised
                /\ IsInstance(outcome.transport.exc, {"RequestException"}))
             => /\ outcome.raised
                /\ outcome.exc = outcome.transport.exc
                /\ outcome.exc \notin Wrappers
          /\ (outcome.caught # "" /\ ~IsInstance(outcome.caught, Anticipated(call)))
             => /\ outcome.raised
                /\ outcome.exc = outcome.caught
                /\ outcome.exc \notin Wrappers
    /\ call = "sort_posts"
       => /\ IsInstance(outcome.caught, {"DistanceException"})
             => /\ outcome.raised
                /\ outcome.exc = outcome.caught
                /\ outcome.exc \notin Wrappers
          /\ (outcome.caught # "" /\ ~IsInstance(outcome.caught, Anticipated(call)))
             => /\ outcome.raised
                /\ outcome.exc = outcome.caught
                /\ outcome.exc \notin Wrappers

\* Witness of C7: a StatusCodeError of the transport comes out of
\* get_available_posts.
C7_Witness ==
    /\ call = "get_available_posts"
    /\ outcome.transport.raised
    /\ outcome.transport.exc = "StatusCodeError"
    /\ outcome.exc = "StatusCodeError"

MalformedPayload(payload) ==
    \/ payload.meta.t = "absent"
    \/ payload.meta.units.t = "absent"
    \/ payload.data.t = "absent"
    \/ payload.data.items = <<>>
    \/ LET sample == payload.data.items[Len(payload.data.items)]
       IN \/ sample.aqi.t = "absent"
          \/ sample.aqi.cityairAqi.t = "absent"
          \/ sample.aqi.cityairAqi.value.t = "absent"

\* C8: a measurements payload with a missing part makes the fetcher raise
\* GetMeasurementError carrying the payload as the transport returned it.
C8_MalformedPayload ==
    (/\ call = "get_last_measurement"
     /\ ~outcome.transport.raised
     /\ outcome.transport.json.type = "dict"
     /\ MalformedPayload(outcome.transport.json.content))
    => /\ outcome.raised
       /\ outcome.exc = "GetMeasurementError"
       /\ outcome.payload = outcome.transport.json

BadPoint(point) ==
    \/ point.t = "none"
    \/ Len(point.items) < 2
    \/ \E i \in 1..Len(point.items) : point.items[i].t # "num"

\* C9: the distance calculation raises HaversineFormulaError whenever a
\* point lacks a coordinate or has one that is no number, and so does the
\* ranker for a bad reference point or a bad coordinate of its first post.
C9_BadPointRaises ==
    /\ (call = "haversine" /\ (BadPoint(args.point1) \/ BadPoint(args.point2)))
       => (outcome.raised /\ outcome.exc = "HaversineFormulaError")
    /\ (/\ call = "sort_posts"
        /\ Len(args.posts) >= 1
        /\ args.posts[1].latitude.t # "absent"
        /\ args.posts[1].longitude.t # "absent"
        /\ (BadPoint(args.reference_point) \/ args.posts[1].latitude.t # "num"))
       => (outcome.raised /\ outcome.exc = "HaversineFormulaError")

\* Seconds since the start of day 0.
Epoch(dt) == ((dt.day * 24 + dt.hour) * 60 + dt.minute) * 60 + dt.second

\* C10: the date__gt sent by the fetcher is a valid time on a 5-minute
\* boundary, the greatest such boundary up to now less 5 minutes, and so
\* between 5 (included) and 10 (excluded) minutes before now.
C10_DateGtWindow ==
    call = "get_last_measurement"
    => LET now == Epoch(args.now)
           date__gt == outcome.params.date__gt
       IN /\ date__gt.hour \in 0..23
          /\ date__gt.minute \in 0..59
          /\ date__gt.minute % 5 = 0
          /\ date__gt.second = 0
          /\ Epoch(date__gt) = (now \div 300) * 300 - 300
          /\ 300 <= now - Epoch(date__gt)
          /\ now - Epoch(date__gt) < 600

\* Witness of C10: a call in the first five minutes of the day asks from the
\* day before on.
C10_Witness ==
    /\ call = "get_last_measurement"
    /\ args.now.hour = 0
    /\ args.now.minute = 3
    /\ args.now.second = 59
    /\ outcome.params.date__gt = [day |-> 0, hour |-> 23, minute |-> 55, second |-> 0]
====
